---- MODULE Spec2Model ----
(***************************************************************************)
(* Gesture-Rider (src/game.js): the simulation core of class Game.         *)
(*                                                                         *)
(* Numbers.  The program computes in floating point; the model computes    *)
(* the same expressions exactly, in integers, in these units:              *)
(*   depth (position, car.z, distanceRun)  1 world unit                    *)
(*   speed                                 1 world unit / second           *)
(*   dt                                    1/DtDen second                  *)
(*   lateral offsets (playerX, offset)     1/XUnit of a road half-width    *)
(*   score                                 1/ScoreUnit point               *)
(* The inputs (DtValues, Commands, Layouts) are chosen so that every       *)
(* product and quotient the code forms is exact in these units: the player *)
(* speed stays a multiple of 300 and every car speed is a multiple of 10.  *)
(***************************************************************************)
EXTENDS Integers, Sequences, FiniteSets

\* ---------------------------------------------------------------- CONFIG
SEGMENT_LENGTH == 200
MAX_SPEED == 12000
ACCEL == 100
BRAKING == -300
DECEL == -50
OFF_ROAD_DECEL == -200
CAMERA_HEIGHT == 1000
TOTAL_SEGMENTS == 2000
DRAW_DISTANCE == 300
ROAD_WIDTH == 2000

\* CONFIG.CAMERA_DEPTH * CONFIG.SEGMENT_LENGTH = 0.84 * 200
CameraDepthLength == 168

\* window.innerWidth and window.innerHeight when the Game is constructed
Width == 1024
Height == 768

\* ----------------------------------------------------------------- units
DtDen == 10
XUnit == 80000
ScoreUnit == 10

\* ---------------------------------------------------------------- bounds
MaxTicks == 4
MaxRestarts == 1
MaxLaps == 2
MaxWideTicks == 2
MaxCalls == 3
MaxHeld == 2
MaxWaves == 2

\* dt = Math.min(1, (now - lastTime) / 1000), in 1/DtDen s: 0 s, 0.1 s, 1 s
DtValues == {0, 1, 10}

\* what InputSystem.getCommand() hands to update: steer in [-1,1], accel and
\* brake in {0,1} (keyboard mode can report accel and brake together)
Commands ==
  [steer : {-1, 0, 1}, accel : {0, 1}, brake : {0, 1}]

\* ------------------------------------------------------------- arithmetic
Abs(x) == IF x < 0 THEN -x ELSE x

Max(a, b) == IF a > b THEN a ELSE b

Min(a, b) == IF a < b THEN a ELSE b

\* Math.floor(a / b) for b > 0 (\div rounds toward minus infinity)
Floor(a, b) == a \div b

\* the JavaScript remainder a % n: it has the sign of the dividend
JsRem(a, n) == IF a >= 0 THEN a % n ELSE -((-a) % n)

\* x * dt, with dt in 1/DtDen s
TimesDt(x, dt) == (x * dt) \div DtDen

\* fractions << num, den >> with den > 0; Frac gives them in lowest terms
RECURSIVE Gcd(_, _)
Gcd(a, b) == IF b = 0 THEN a ELSE Gcd(b, a % b)

Frac(num, den) ==
  LET g == Gcd(Abs(num), den)
  IN IF num = 0 THEN << 0, 1 >> ELSE << num \div g, den \div g >>

Zero == << 0, 1 >>

\* ------------------------------------------------------------------ state
VARIABLES
  position,     \* Game.position
  playerX,      \* Game.playerX, in 1/XUnit
  speed,        \* Game.speed
  score,        \* Game.score, in 1/ScoreUnit
  distanceRun,  \* Game.distanceRun
  isPlaying,    \* Game.isPlaying
  isGameOver,   \* Game.isGameOver
  highScore,    \* Game.highScore (and the persisted best score)
  segments,     \* Game.segments: index -> [cars, sprites], lists of references;
                \* an index that is not in the domain has two empty lists
  heap,         \* the car and sprite objects the references point to
  nextObj,      \* the number of objects allocated so far (object identity)
  renders,      \* the camera depths (this.position) of the render() calls on
                \* the current track, in order: segments[i].p1 and .p2 are
                \* what those calls' projections left in them (PointsAfter)
  pending,      \* the number of step callbacks waiting in the frame scheduler
  op,           \* the operation that ran last, with its arguments
  ticks,        \* the number of step callbacks run so far
  restarts,     \* the number of restart() calls so far
  probe,        \* the argument and result of the last findSegment probe
  cmdProbe,     \* the last command given to update() and what it and the
                \* nearest in-range command did to speed and playerX
  input,        \* Game.input: the InputSystem (keys, keyboardSteer, gesture)
  lastCmd,      \* the last result of getCommand()
  calls,        \* the number of getCommand() calls so far
  page          \* window.onload: gameStarted, cameraReady, the camera and the
                \* start button, the number of game.start() calls and of wave
                \* callbacks so far, and the page event that ran last

vars ==
  << position, playerX, speed, score, distanceRun, isPlaying, isGameOver,
     highScore, segments, heap, nextObj, renders, pending, op, ticks,
     restarts, probe, cmdProbe, input, lastCmd, calls, page >>

\* the fields of `this` that update() and restart() write
gameVars ==
  << position, playerX, speed, score, distanceRun, isGameOver, highScore,
     segments, heap >>

\* the InputSystem and what the model records of its calls
inputVars == << input, lastCmd, calls >>

\* what render() writes
renderVars == << renders >>

\* the fields of `this` that update(), restart() and crash() read and write
This ==
  [ position |-> position, playerX |-> playerX, speed |-> speed,
    score |-> score, distanceRun |-> distanceRun, isGameOver |-> isGameOver,
    highScore |-> highScore, segments |-> segments, heap |-> heap ]

\* ------------------------------------------------------------------ track
\* segments.length * CONFIG.SEGMENT_LENGTH
TrackLength == TOTAL_SEGMENTS * SEGMENT_LENGTH

\* resetRoad: the curve of segment i
Curve(i) ==
  IF i > 100 /\ i < 300 THEN 2
  ELSE IF i > 500 /\ i < 700 THEN -3
  ELSE IF i > 1000 /\ i < 1200 THEN 4
  ELSE IF i > 1500 /\ i < 1700 THEN -2
  ELSE 0

\* resetRoad: const lanes = [-0.65, 0, 0.65]
Lanes == { -(65 * XUnit) \div 100, 0, (65 * XUnit) \div 100 }

\* segments[i].cars and segments[i].sprites
CarsOf(segs, i) == IF i \in DOMAIN segs THEN segs[i].cars ELSE << >>

SpritesOf(segs, i) == IF i \in DOMAIN segs THEN segs[i].sprites ELSE << >>

\* segments with segments[i].cars replaced by cs
WithCars(segs, i, cs) ==
  LET sp == SpritesOf(segs, i)
      D == IF cs = << >> /\ sp = << >> THEN DOMAIN segs \ {i}
           ELSE DOMAIN segs \cup {i}
  IN [ k \in D |-> IF k = i THEN [cars |-> cs, sprites |-> sp] ELSE segs[k] ]

\* What Math.random() decides in one resetRoad(): which eligible segments get a
\* car (with lane and speed) and which get a tree (with offset).
\*   car:  i > 20 && i % 40 === 0, lane in lanes, speed = randomInt(3000, 8000)
\*   tree: i % 20 === 0, offset = side * (1.5 + Math.random())
ValidCar(c) ==
  /\ c.seg \in 0..(TOTAL_SEGMENTS - 1)
  /\ c.seg > 20 /\ c.seg % 40 = 0
  /\ c.offset \in Lanes
  /\ c.speed >= 3000 /\ c.speed <= 8000

ValidSprite(s) ==
  /\ s.seg \in 0..(TOTAL_SEGMENTS - 1)
  /\ s.seg % 20 = 0
  /\ Abs(s.offset) * 2 >= 3 * XUnit
  /\ Abs(s.offset) * 2 < 5 * XUnit

ValidLayout(l) ==
  /\ \A k \in 1..Len(l.cars) : ValidCar(l.cars[k])
  /\ \A k \in 1..Len(l.sprites) : ValidSprite(l.sprites[k])
  /\ \A j, k \in 1..Len(l.cars) : j < k => l.cars[j].seg < l.cars[k].seg
  /\ \A j, k \in 1..Len(l.sprites) : j < k => l.sprites[j].seg < l.sprites[k].seg

\* addCar(segmentIndex, offset, speed): the new car object
NewCar(c) ==
  [ kind |-> "car", offset |-> c.offset, z |-> c.seg * SEGMENT_LENGTH,
    speed |-> c.speed, justPassed |-> FALSE ]

\* mutant of NewSprite: the tree is put at half the offset, on the road
NewSprite_OnRoad(s) == [ kind |-> "tree", offset |-> s.offset \div 2 ]

\* addSprite(segmentIndex, offset, type): the new sprite object
NewSprite(s) == [ kind |-> "tree", offset |-> s.offset ]

\* resetRoad() under the random choices of layout l; the objects it creates
\* are numbered from base + 1.  It yields the new segments and their objects.
ResetRoad(l, base) ==
  LET nc == Len(l.cars)
      ns == Len(l.sprites)
      D == { l.cars[k].seg : k \in 1..nc } \cup { l.sprites[k].seg : k \in 1..ns }
      carRef(i) == { base + k : k \in { j \in 1..nc : l.cars[j].seg = i } }
      spRef(i) == { base + nc + k : k \in { j \in 1..ns : l.sprites[j].seg = i } }
      one(S) == IF S = {} THEN << >> ELSE << CHOOSE x \in S : TRUE >>
  IN [ segments |-> [ i \in D |-> [cars |-> one(carRef(i)), sprites |-> one(spRef(i))] ],
       heap |-> [ o \in (base + 1)..(base + nc + ns) |->
                    IF o <= base + nc THEN NewCar(l.cars[o - base])
                    ELSE NewSprite(l.sprites[o - base - nc]) ],
       nextObj |-> base + nc + ns ]

\* ------------------------------------------------------------ collisions
\* the hitbox widths of updateTraffic and checkSpriteCollisions
PlayerW == (15 * XUnit) \div 100

CarW == (45 * XUnit) \div 100

SpriteW == (30 * XUnit) \div 100

\* mutant of Overlap: only one side of the two intervals is compared
Overlap_OneSided(x1, w1, x2, w2) ==
  ~((x1 + w1 \div 2) < (x2 - w2 \div 2))

\* overlap(x1, w1, x2, w2)
Overlap(x1, w1, x2, w2) ==
  LET half1 == w1 \div 2
      half2 == w2 \div 2
      min1 == x1 - half1
      max1 == x1 + half1
      min2 == x2 - half2
      max2 == x2 + half2
  IN ~((max1 < min2) \/ (min1 > max2))

\* mutant of Crash: the high score is left as it was
Crash_NoHighScore(g) == [ g EXCEPT !.speed = 0, !.isGameOver = TRUE ]

\* crash(), on the fields g of `this`
Crash(g) ==
  [ g EXCEPT !.speed = 0,
             !.isGameOver = TRUE,
             !.highScore = IF g.score > g.highScore * ScoreUnit
                           THEN Floor(g.score, ScoreUnit)
                           ELSE g.highScore ]

\* triggerCloseCall(): this.score += 500
TriggerCloseCall(g) == [ g EXCEPT !.score = g.score + 500 * ScoreUnit ]

\* findSegment(z): the index Math.floor(z / SEGMENT_LENGTH) % segments.length
\* that the array is read at; outside 0..segments.length-1 the read is undefined
FindSegment(z) == JsRem(Floor(z, SEGMENT_LENGTH), TOTAL_SEGMENTS)

\* mutant of WrapDist: only the first of the two corrections is made
WrapDist_OneSided(a, playerZ) ==
  LET d0 == a - playerZ
  IN IF 2 * d0 < -TrackLength THEN d0 + TrackLength ELSE d0

\* dist = a - playerZ, then the two wrap corrections of lines 672-673 / 632-633
WrapDist(a, playerZ) ==
  LET d0 == a - playerZ
      d1 == IF 2 * d0 < -TrackLength THEN d0 + TrackLength ELSE d0
  IN IF 2 * d1 > TrackLength THEN d1 - TrackLength ELSE d1

\* ---------------------------------------------------------------- traffic
\* the indices of S in ascending order
RECURSIVE Ascending(_)
Ascending(S) ==
  IF S = {} THEN << >>
  ELSE LET m == CHOOSE x \in S : \A y \in S : x <= y
       IN << m >> \o Ascending(S \ {m})

\* the (segment index, car) pairs in the order the two loops of updateTraffic
\* visit them: segments by index, each segment's cars by list position
RECURSIVE VisitsFrom(_, _)
VisitsFrom(segs, idx) ==
  IF idx = << >> THEN << >>
  ELSE [ j \in 1..Len(CarsOf(segs, Head(idx))) |->
           [seg |-> Head(idx), car |-> CarsOf(segs, Head(idx))[j]] ]
       \o VisitsFrom(segs, Tail(idx))

\* mutant of Visits: every car is visited a second time
Visits_Twice(segs) ==
  VisitsFrom(segs, Ascending(DOMAIN segs)) \o VisitsFrom(segs, Ascending(DOMAIN segs))

Visits(segs) == VisitsFrom(segs, Ascending(DOMAIN segs))

\* car.z += car.speed * dt, then the two wrap tests of lines 660-661
AdvanceZ(z, carSpeed, dt) ==
  LET z1 == z + TimesDt(carSpeed, dt)
      z2 == IF z1 > TrackLength THEN z1 - TrackLength ELSE z1
  IN IF z2 < 0 THEN z2 + TrackLength ELSE z2

\* mutant of CloseCall: the justPassed flag is not consulted
CloseCall_NoFlag(dist, justPassed, pX, offset) ==
  /\ dist < -100 /\ dist > -300
  /\ 10 * Abs(pX - offset) < 8 * XUnit /\ 100 * Abs(pX - offset) > 35 * XUnit

\* the close-call test of lines 676-686 for a car at relative depth dist
CloseCall(dist, justPassed, pX, offset) ==
  /\ dist < -100 /\ dist > -300 /\ ~justPassed
  /\ LET lateralDist == Abs(pX - offset)
     IN 10 * lateralDist < 8 * XUnit /\ 100 * lateralDist > 35 * XUnit

\* the collision test of lines 692-702
CarHit(dist, pX, offset) ==
  Abs(dist) < 200 /\ Overlap(pX, PlayerW, offset, CarW)

\* the body of the inner loop of updateTraffic for one car.  ls is the loop
\* state: the fields of `this`, carsToMove, and what the pass did (the cars
\* that were awarded the bonus, the cars the justPassed flag held back, the
\* number of crash() calls and the score the last of them read, the score
\* that line 716 added), beside what update() did before the pass (the
\* off-road change of speed) and after it (the crash() calls of
\* checkSpriteCollisions).
VisitCar(ls, v, dt) ==
  LET g == ls.g
      car == g.heap[v.car]
      playerZ == g.position + CAMERA_HEIGHT
      z == AdvanceZ(car.z, car.speed, dt)
      actualSegmentIndex == Floor(z, SEGMENT_LENGTH) % TOTAL_SEGMENTS
      moves == IF v.seg # actualSegmentIndex
               THEN Append(ls.carsToMove,
                           [car |-> v.car, from |-> v.seg, to |-> actualSegmentIndex])
               ELSE ls.carsToMove
      dist == WrapDist(z, playerZ)
      bonus == CloseCall(dist, car.justPassed, g.playerX, car.offset)
      held == CloseCall(dist, FALSE, g.playerX, car.offset) /\ car.justPassed
      jp1 == IF bonus THEN TRUE ELSE car.justPassed
      jp2 == IF Abs(dist) > 1000 THEN FALSE ELSE jp1
      g1 == IF bonus THEN TriggerCloseCall(g) ELSE g
      g2 == [ g1 EXCEPT !.heap[v.car] = [ car EXCEPT !.z = z, !.justPassed = jp2 ] ]
      hit == CarHit(dist, g.playerX, car.offset)
      g3 == IF hit THEN Crash(g2) ELSE g2
  IN [ g |-> g3,
       carsToMove |-> moves,
       awarded |-> IF bonus THEN ls.awarded \cup {v.car} ELSE ls.awarded,
       held |-> IF held THEN ls.held \cup {v.car} ELSE ls.held,
       crashes |-> IF hit THEN ls.crashes + 1 ELSE ls.crashes,
       crashScore |-> IF hit THEN g2.score ELSE ls.crashScore,
       passive |-> ls.passive,
       penalty |-> ls.penalty,
       spriteCrashes |-> ls.spriteCrashes ]

RECURSIVE TrafficLoop(_, _, _, _)
TrafficLoop(ls, visits, k, dt) ==
  IF k > Len(visits) THEN ls
  ELSE TrafficLoop(VisitCar(ls, visits[k], dt), visits, k + 1, dt)

\* fromSeg.cars.indexOf(move.car): the first position of c in cs, 0 for -1
IndexOf(cs, c) ==
  IF \E j \in 1..Len(cs) : cs[j] = c
  THEN CHOOSE j \in 1..Len(cs) : cs[j] = c /\ \A i \in 1..(j - 1) : cs[i] # c
  ELSE 0

\* cs.splice(index, 1)
Splice(cs, index) ==
  [ j \in 1..(Len(cs) - 1) |-> IF j < index THEN cs[j] ELSE cs[j + 1] ]

\* mutant of MoveCar: the car is pushed to the new list and left in the old one
MoveCar_NoSplice(segs, move) ==
  IF IndexOf(CarsOf(segs, move.from), move.car) > 0
  THEN WithCars(segs, move.to, Append(CarsOf(segs, move.to), move.car))
  ELSE segs

\* one iteration of the migration loop of lines 706-714
MoveCar(segs, move) ==
  LET index == IndexOf(CarsOf(segs, move.from), move.car)
  IN IF index > 0
     THEN LET s1 == WithCars(segs, move.from, Splice(CarsOf(segs, move.from), index))
          IN WithCars(s1, move.to, Append(CarsOf(s1, move.to), move.car))
     ELSE segs

RECURSIVE MoveCars(_, _, _)
MoveCars(segs, carsToMove, k) ==
  IF k > Len(carsToMove) THEN segs
  ELSE MoveCars(MoveCar(segs, carsToMove[k]), carsToMove, k + 1)

\* mutant of PassiveScore: the test speed > 0 is missing
PassiveScore_NoGuard(s, dt) == (s * dt * 10 * ScoreUnit) \div (1000 * DtDen)

\* line 716: if (this.speed > 0) this.score += (this.speed / 1000) * dt * 10,
\* the amount added, in 1/ScoreUnit
PassiveScore(s, dt) ==
  IF s > 0 THEN (s * dt * 10 * ScoreUnit) \div (1000 * DtDen) ELSE 0

\* updateTraffic(dt, playerSegment)
UpdateTraffic(ls, dt) ==
  LET l1 == TrafficLoop(ls, Visits(ls.g.segments), 1, dt)
      g1 == l1.g
      g2 == [ g1 EXCEPT !.segments = MoveCars(g1.segments, l1.carsToMove, 1) ]
      passive == PassiveScore(g2.speed, dt)
      g3 == [ g2 EXCEPT !.score = g2.score + passive ]
  IN [ l1 EXCEPT !.g = g3, !.passive = passive ]

\* -------------------------------------------------------- sprite collisions
\* the test of lines 627-643 for the sprites of segment idx
SpriteHit(g, idx) ==
  LET playerZ == g.position + CAMERA_HEIGHT
      spriteZ == idx * SEGMENT_LENGTH
      dist == WrapDist(spriteZ, playerZ)
      sprites == SpritesOf(g.segments, idx)
  IN \E j \in 1..Len(sprites) :
       /\ Abs(dist) < 100
       /\ Overlap(g.playerX, PlayerW, g.heap[sprites[j]].offset, SpriteW)

\* checkSpriteCollisions(): crash() and return at the first sprite that is hit
CheckSpriteCollisions(ls) ==
  LET g == ls.g
      playerZ == g.position + CAMERA_HEIGHT
      startSegIndex == JsRem(Floor(playerZ, SEGMENT_LENGTH), TOTAL_SEGMENTS)
      hit == \E i \in -1..2 :
               SpriteHit(g, JsRem(startSegIndex + i + TOTAL_SEGMENTS, TOTAL_SEGMENTS))
  IN IF hit
     THEN [ ls EXCEPT !.g = Crash(g), !.crashes = ls.crashes + 1,
                      !.crashScore = g.score,
                      !.spriteCrashes = ls.spriteCrashes + 1 ]
     ELSE ls

\* ----------------------------------------------------------------- update
\* lines 585-587: the change of speed under the command
Throttle(cmd, dt) ==
  IF cmd.accel > 0 THEN TimesDt(ACCEL * cmd.accel * 60, dt)
  ELSE IF cmd.brake > 0 THEN TimesDt(BRAKING * 60, dt)
  ELSE TimesDt(DECEL * 60, dt)

\* line 589
ClampSpeed(s) == Max(0, Min(s, MAX_SPEED))

\* mutant of ClampX: the lateral offset is not clamped
ClampX_None(x) == x

\* line 599
ClampX(x) == Max(-2 * XUnit, Min(2 * XUnit, x))

\* mutant of OffRoad: the test speed > 2000 is missing
OffRoad_NoThreshold(s, x, dt) ==
  IF x < -XUnit \/ x > XUnit
  THEN s + TimesDt(OFF_ROAD_DECEL * 60, dt)
  ELSE s

\* line 597: the speed after the off-road test at lateral offset x
OffRoad(s, x, dt) ==
  IF (x < -XUnit \/ x > XUnit) /\ s > 2000
  THEN s + TimesDt(OFF_ROAD_DECEL * 60, dt)
  ELSE s

\* lines 603-605
WrapPosition(p) ==
  LET p1 == IF p >= TrackLength THEN p - TrackLength ELSE p
  IN IF p1 < 0 THEN p1 + TrackLength ELSE p1

\* the smallest change of speed: DECEL * 60 over 1/DtDen s.  Every speed the
\* player has is a multiple of it.
SpeedStep == (-DECEL * 60) \div DtDen

\* line 591: dx = dt * 2 * cmd.steer * (speed / MAX_SPEED), in 1/XUnit
\* (the divisions are exact; they are ordered to stay within 32-bit integers)
SteerDx(dt, steer, s) ==
  (TimesDt(2 * steer * s, dt) * (XUnit \div 1000)) \div (MAX_SPEED \div 1000)

\* line 595: dx * playerSegment.curve * ratio * 0.1, ratio = speed / MAX_SPEED
\* with the speed at the start of update
CurveDx(dx, curve, ratioSpeed) ==
  (dx * curve * (ratioSpeed \div SpeedStep)) \div ((MAX_SPEED \div SpeedStep) * 10)

\* what one pass of update reports besides the new fields of `this`
NoPass(g) ==
  [ g |-> g, carsToMove |-> << >>, awarded |-> {}, held |-> {}, crashes |-> 0,
    crashScore |-> 0, passive |-> 0, penalty |-> 0, spriteCrashes |-> 0 ]

\* update(dt) after its first line, with the command cmd of getCommand()
Simulate(g, dt, cmd) ==
    LET ratioSpeed == g.speed
        speed1 == ClampSpeed(g.speed + Throttle(cmd, dt))
        dx == SteerDx(dt, cmd.steer, speed1)
        x1 == g.playerX - dx
        playerSegment == FindSegment(g.position + CameraDepthLength)
        x2 == x1 - CurveDx(dx, Curve(playerSegment), ratioSpeed)
        speed2 == OffRoad(speed1, x2, dt)
        x3 == ClampX(x2)
        moved == TimesDt(speed2, dt)
        g1 == [ g EXCEPT !.speed = speed2,
                         !.playerX = x3,
                         !.position = WrapPosition(g.position + moved),
                         !.distanceRun = g.distanceRun + moved ]
        pass == [ NoPass(g1) EXCEPT !.penalty = speed2 - speed1 ]
    IN CheckSpriteCollisions(UpdateTraffic(pass, dt))

\* mutant of Update: the game-over test is missing
Update_NoLatch(g, dt, cmd) == Simulate(g, dt, cmd)

\* update(dt): if (this.isGameOver) return
Update(g, dt, cmd) ==
  IF g.isGameOver THEN NoPass(g) ELSE Simulate(g, dt, cmd)

\* ----------------------------------------------------------------- render
\* A field of a point is << >> while it is undefined and << v >> once it is
\* written; screen.scale is the fraction << num, den >>.  camera.x, camera.y
\* and screen.x are not kept: nothing in render() decides by them, and
\* screen.x is written exactly where screen.y and screen.w are.
Undefined == << >>

\* p1: { world: ..., camera: {}, screen: {} } of resetRoad
NewPoint == [ cz |-> Undefined, scale |-> Undefined, y |-> Undefined, w |-> Undefined ]

NewPoints == [ p1 |-> NewPoint, p2 |-> NewPoint ]

\* Math.round(a / b) for a >= 0 and b > 0
RoundDiv(a, b) == (a \div b) + (IF 2 * (a % b) >= b THEN 1 ELSE 0)

\* Utils.project(p, cameraX, cameraY, cameraZ, cameraDepth, width, height,
\* roadWidth) for a point at world depth worldZ and height 0, seen from
\* cameraY = CAMERA_HEIGHT; cameraDepth = 0.84 = 21/25
Project(p, worldZ, cameraZ) ==
  LET cz == worldZ - cameraZ
  IN IF cz <= 0
     THEN [ p EXCEPT !.cz = << cz >>, !.scale = Zero ]
     ELSE [ cz |-> << cz >>,
            scale |-> << 21, 25 * cz >>,
            y |-> << RoundDiv(Height * (25 * cz + 21 * CAMERA_HEIGHT), 50 * cz) >>,
            w |-> << RoundDiv(21 * ROAD_WIDTH * Width, 50 * cz) >> ]

\* a >= b in JavaScript: false when either side is undefined
Ge(a, b) == a # Undefined /\ b # Undefined /\ a[1] >= b[1]

\* the n of the first loop at which segment i is projected, counted from
\* the base segment
DrawN(i, baseIndex) == (i - baseIndex) % TOTAL_SEGMENTS

\* the two Utils.project calls of lines 777-778 for segment i
ProjectSegment(pts, i, baseIndex, pos) ==
  LET looped == i < baseIndex
      cameraZ == pos - (IF looped THEN TrackLength ELSE 0)
  IN [ p1 |-> Project(pts.p1, i * SEGMENT_LENGTH, cameraZ),
       p2 |-> Project(pts.p2, (i + 1) * SEGMENT_LENGTH, cameraZ) ]

\* line 780: the test that skips renderSegment; CAMERA_DEPTH = 0.84
SkipSegment(pts, maxY) ==
  \/ 100 * pts.p1.cz[1] <= 84
  \/ Ge(pts.p2.y, maxY)
  \/ Ge(pts.p2.y, pts.p1.y)

\* lines 780-784 for the n-th segment from the base, after its projection.
\* st is the loop state: maxY and the indices of the segments that
\* renderSegment was called for, in the order of the calls.
DrawSegment(scr, baseIndex, n, st) ==
  LET i == (baseIndex + n) % TOTAL_SEGMENTS
  IN IF SkipSegment(scr[i], st.maxY)
     THEN st
     ELSE [ maxY |-> scr[i].p1.y, segments |-> Append(st.segments, i) ]

\* the iterations lo..hi of the first loop of render(), in order.  The range
\* is halved so that the evaluation does not nest DRAW_DISTANCE deep; the
\* test on the state after the first half always holds, and makes that state
\* a value before the second half starts.
RECURSIVE DrawLoop(_, _, _, _, _)
DrawLoop(scr, baseIndex, lo, hi, st) ==
  IF lo = hi THEN DrawSegment(scr, baseIndex, lo, st)
  ELSE LET mid == (lo + hi) \div 2
           half == DrawLoop(scr, baseIndex, lo, mid, st)
       IN IF Len(half.segments) >= 0
          THEN DrawLoop(scr, baseIndex, mid + 1, hi, half)
          ELSE half

\* mutant of InSpriteLoop: the loop also visits the base segment
InSpriteLoop_WithBase(n) == n <= DRAW_DISTANCE - 1 /\ n >= 0

\* line 787: for (let n = DRAW_DISTANCE - 1; n > 0; n--)
InSpriteLoop(n) == n <= DRAW_DISTANCE - 1 /\ n > 0

\* lines 790-808: the renderCar and renderSprite calls that draw (they
\* return at once when their scale argument, p1.screen.w, is <= 0)
SpritesDrawn(segs, scr, baseIndex) ==
  UNION { LET w == scr[i].p1.w
              objs == CarsOf(segs, i) \o SpritesOf(segs, i)
          IN IF w # Undefined /\ w[1] > 5
             THEN { [ seg |-> i, obj |-> objs[j] ] : j \in 1..Len(objs) }
             ELSE {}
          : i \in { k \in DOMAIN segs : InSpriteLoop(DrawN(k, baseIndex)) } }

\* segments[i].p1 and .p2 after render() has run at the camera depths rs, in
\* that order, on a new track: each call projects the DRAW_DISTANCE segments
\* from its base segment on and leaves the others as they are
RECURSIVE PointsAfter(_, _)
PointsAfter(i, rs) ==
  IF rs = << >> THEN NewPoints
  ELSE LET pos == rs[Len(rs)]
           before == PointsAfter(i, SubSeq(rs, 1, Len(rs) - 1))
       IN IF DrawN(i, FindSegment(pos)) < DRAW_DISTANCE
          THEN ProjectSegment(before, i, FindSegment(pos), pos)
          ELSE before

\* the last render() of rs, on the segments segs: the points of the segments
\* it projected, as it left them, and what it drew
Render(segs, rs) ==
  LET pos == rs[Len(rs)]
      baseIndex == FindSegment(pos)
      range == { (baseIndex + n) % TOTAL_SEGMENTS : n \in 0..(DRAW_DISTANCE - 1) }
      scr == [ i \in range |-> PointsAfter(i, rs) ]
  IN [ baseIndex |-> baseIndex,
       screen |-> scr,
       segments |-> DrawLoop(scr, baseIndex, 0, DRAW_DISTANCE - 1,
                             [ maxY |-> << Height >>, segments |-> << >> ]).segments,
       sprites |-> SpritesDrawn(segs, scr, baseIndex) ]

\* mutant of RenderCall: render() snaps this.position to its base segment
RenderCall_SnapsCamera(g, rs) ==
  [ g |-> [ g EXCEPT !.position = g.position - (g.position % SEGMENT_LENGTH) ],
    renders |-> Append(rs, g.position) ]

\* render(), lines 756-815, by what it assigns to: segment.looped and
\* segment.clipY (lines 773, 784) and, through Utils.project, the camera and
\* screen fields of p1 and p2 (lines 777-778), all of which follow from the
\* log of camera depths; the particles and the canvas, which are not kept;
\* and no field of `this`, no cars or sprites list, no car and no sprite.
\* g is `this` before the call, rs the log before it.
RenderCall(g, rs) == [ g |-> g, renders |-> Append(rs, g.position) ]

\* ------------------------------------------------------------ InputSystem
\* keyboardSteer and cmd.steer in keyboard mode are fractions << num, den >>
\* in lowest terms with den > 0, computed exactly
\* the codes e.code of the keys the model presses: those getCommand() reads,
\* and the two more that the README names
KeyCodes ==
  { "ArrowUp", "ArrowDown", "ArrowLeft", "ArrowRight",
    "KeyW", "KeyA", "KeyS", "KeyD", "Space", "KeyB" }

\* lines 350-363: the new keyboardSteer under the keys held
\*   steerSpeed = 0.25: ks += (targetSteer - ks) * 0.25
\*   steerReturn = 0.2: ks *= 0.8, and 0 once |ks| < 0.01
KeyboardSteer(keys, ks) ==
  LET left == "ArrowLeft" \in keys \/ "KeyA" \in keys
      right == "ArrowRight" \in keys \/ "KeyD" \in keys
      targetSteer == IF right THEN -1 ELSE IF left THEN 1 ELSE 0
      back == Frac(4 * ks[1], 5 * ks[2])
  IN IF targetSteer # 0
     THEN Frac(3 * ks[1] + targetSteer * ks[2], 4 * ks[2])
     ELSE IF 100 * Abs(back[1]) < back[2] THEN Zero ELSE back

\* getCommand(), lines 342-376: the new InputSystem and the command returned
GetCommand(inp) ==
  IF inp.gesture.active
  THEN [ input |-> inp,
         cmd |-> [ steer |-> inp.gesture.tilt, accel |-> inp.gesture.throttle,
                   brake |-> inp.gesture.brake ] ]
  ELSE LET ks == KeyboardSteer(inp.keys, inp.keyboardSteer)
       IN [ input |-> [ inp EXCEPT !.keyboardSteer = ks ],
            cmd |-> [ steer |-> ks,
                      accel |-> IF "ArrowUp" \in inp.keys \/ "KeyW" \in inp.keys
                                THEN 1 ELSE 0,
                      brake |-> IF "ArrowDown" \in inp.keys \/ "KeyS" \in inp.keys
                                THEN 1 ELSE 0 ] ]

\* ---------------------------------------------------------------- layouts
Lane(n) == (n * 65 * XUnit) \div 100

\* a tree at offset side * (1.5 + r4 / 4)
TreeAt(n, side, r4) == [seg |-> n, offset |-> side * (((6 + r4) * XUnit) \div 4)]

CarAt(n, lane, carSpeed) == [seg |-> n, offset |-> Lane(lane), speed |-> carSpeed]

\* The outcomes of resetRoad's random choices that the model explores.
CandidateLayouts ==
  { \* a car in the centre lane that the accelerating player runs into, a car
    \* that reaches the end of the track, trees on both sides
    [ cars |-> << CarAt(40, 0, 5500), CarAt(1960, 1, 8000) >>,
      sprites |-> << TreeAt(0, 1, 0), TreeAt(40, -1, 0), TreeAt(100, 1, 1) >> ],
    \* two cars in the outer lanes that are side by side when the player passes
    [ cars |-> << CarAt(40, -1, 7650), CarAt(80, 1, 5000) >>,
      sprites |-> << TreeAt(20, -1, 1) >> ],
    \* a car in the right lane that the player passes closely, one behind it,
    \* and a tree that a player who leaves the road to the left runs into
    [ cars |-> << CarAt(40, 1, 5400), CarAt(1920, 0, 4000) >>,
      sprites |-> << TreeAt(80, -1, 2), TreeAt(100, -1, 0) >> ],
    \* a car in the centre lane that the player runs into from behind while a
    \* car in the right lane, listed after it, is just behind the player
    [ cars |-> << CarAt(40, 0, 7650), CarAt(80, 1, 4950) >>,
      sprites |-> << >> ] }

Layouts == { l \in CandidateLayouts : ValidLayout(l) }

\* one more outcome: two cars in the centre lane, the faster one behind, that
\* are bumper to bumper when the player reaches them
JamLayouts ==
  { l \in { [ cars |-> << CarAt(40, 0, 7670), CarAt(80, 0, 5000) >>,
              sprites |-> << >> ] } : ValidLayout(l) }

\* ------------------------------------------------------------------ actions
\* let cmd = { steer: 0, accel: 0, brake: 0 }
NoCmd == [ steer |-> 0, accel |-> 0, brake |-> 0 ]

NoOp(name) ==
  [ name |-> name, dt |-> 0, cmd |-> NoCmd, awarded |-> {}, held |-> {},
    crashes |-> 0, crashScore |-> 0, passive |-> 0, penalty |-> 0,
    spriteCrashes |-> 0 ]

NoProbe == [ d |-> 0, k |-> 0, base |-> 0, shifted |-> 0 ]

NoCmdProbe ==
  [ cmd |-> NoCmd, dt |-> 0, speed |-> 0, playerX |-> 0, nearSpeed |-> 0,
    nearX |-> 0 ]

\* new InputSystem(): no key held, keyboardSteer 0, no hand tracked
NewInput ==
  [ keys |-> {}, keyboardSteer |-> Zero,
    gesture |-> [ tilt |-> Zero, throttle |-> 0, brake |-> 0, active |-> FALSE ] ]

NoLastCmd == [ steer |-> Zero, accel |-> 0, brake |-> 0 ]

\* window.onload up to its first await: gameStarted and cameraReady false,
\* the start button disabled, startCamera() called and not yet settled
NewPage ==
  [ gameStarted |-> FALSE, cameraReady |-> FALSE, camera |-> "starting",
    disabled |-> TRUE, starts |-> 0, waves |-> 0,
    last |-> [ name |-> "load", running |-> FALSE ] ]

\* new Game(): the constructor, with highScore read as 0 (nothing persisted)
\* and a track that is one of ls, and the rest of window.onload
InitFrom(ls) ==
  \E l \in ls :
    LET road == ResetRoad(l, 0)
    IN /\ position = 0
       /\ playerX = 0
       /\ speed = 0
       /\ score = 0
       /\ distanceRun = 0
       /\ isPlaying = FALSE
       /\ isGameOver = FALSE
       /\ highScore = 0
       /\ segments = road.segments
       /\ heap = road.heap
       /\ nextObj = road.nextObj
       /\ renders = << >>
       /\ pending = 0
       /\ op = NoOp("init")
       /\ ticks = 0
       /\ restarts = 0
       /\ probe = NoProbe
       /\ cmdProbe = NoCmdProbe
       /\ input = NewInput
       /\ lastCmd = NoLastCmd
       /\ calls = 0
       /\ page = NewPage

Init == InitFrom(Layouts)

\* start(): called once, by startGame(), before the first step; it ends with
\* requestAnimationFrame(this.step)
Start ==
  /\ ~isPlaying
  /\ isPlaying' = TRUE
  /\ pending' = pending + 1
  /\ op' = NoOp("start")
  /\ UNCHANGED << position, playerX, speed, score, distanceRun, isGameOver,
                  highScore, segments, heap, nextObj, ticks, restarts, probe,
                  cmdProbe, inputVars, renderVars, page >>

\* step(now): one frame callback, with dt = min(1, (now - lastTime) / 1000)
\* and the command that getCommand() returns: update(dt), then render()
StepWith(dt, cmd) ==
  \E r \in {Update(This, dt, cmd)} : \E f \in {RenderCall(r.g, renders)} :
     /\ renders' = f.renders
     /\ position' = f.g.position
     /\ playerX' = f.g.playerX
     /\ speed' = f.g.speed
     /\ score' = f.g.score
     /\ distanceRun' = f.g.distanceRun
     /\ isGameOver' = f.g.isGameOver
     /\ highScore' = f.g.highScore
     /\ segments' = f.g.segments
     /\ heap' = f.g.heap
     /\ op' = [ name |-> "update", dt |-> dt, cmd |-> cmd, awarded |-> r.awarded,
                held |-> r.held, crashes |-> r.crashes,
                crashScore |-> r.crashScore, passive |-> r.passive,
                penalty |-> r.penalty, spriteCrashes |-> r.spriteCrashes ]

\* The frame scheduler runs one of the pending step callbacks, and
\* getCommand() returns one of cmds.  A callback that finds isPlaying false
\* returns; any other one updates, renders and ends with
\* requestAnimationFrame(this.step), whatever update() did.
StepFrom(cmds) ==
  /\ pending > 0
  /\ ticks < MaxTicks
  /\ IF isPlaying
     THEN /\ \E dt \in DtValues, cmd \in cmds : StepWith(dt, cmd)
          /\ pending' = (pending - 1) + 1
     ELSE /\ pending' = pending - 1
          /\ op' = NoOp("step")
          /\ UNCHANGED << gameVars, renderVars >>
  /\ ticks' = ticks + 1
  /\ UNCHANGED << isPlaying, nextObj, restarts, probe, cmdProbe, inputVars,
                  page >>

Step == StepFrom(Commands)

\* mutant of RestartWith: the road is not rebuilt
RestartWith_KeepRoad(l) ==
  /\ UNCHANGED << segments, heap, nextObj, renders >>
  /\ speed' = 0
  /\ score' = 0
  /\ distanceRun' = 0
  /\ position' = 0
  /\ playerX' = 0
  /\ isGameOver' = FALSE
  /\ isPlaying' = TRUE

\* restart() under the random choices of layout l
RestartWith(l) ==
  \E road \in {ResetRoad(l, nextObj)} :
     /\ segments' = road.segments
     /\ heap' = road.heap
     /\ nextObj' = road.nextObj
     /\ renders' = << >>
     /\ speed' = 0
     /\ score' = 0
     /\ distanceRun' = 0
     /\ position' = 0
     /\ playerX' = 0
     /\ isGameOver' = FALSE
     /\ isPlaying' = TRUE

\* The restart button is on the game-over screen, which crash() shows and
\* restart() hides, and the wave callback restarts only if game.isGameOver.
\* restart() ends with requestAnimationFrame(this.step).
Restart ==
  /\ isGameOver
  /\ restarts < MaxRestarts
  /\ \E l \in Layouts : RestartWith(l)
  /\ pending' = pending + 1
  /\ restarts' = restarts + 1
  /\ op' = NoOp("restart")
  /\ UNCHANGED << highScore, ticks, probe, cmdProbe, inputVars, page >>

Next == Start \/ Step \/ Restart

Spec == Init /\ [][Next]_vars

\* the game on a track where two cars of one lane meet
InitJam == InitFrom(JamLayouts)

SpecJam == InitJam /\ [][Next]_vars

\* ------------------------------------------------------ findSegment alone
\* world depths on and around segment boundaries, near both ends of the track
ProbeDepths ==
  { m * SEGMENT_LENGTH + r : m \in {0, 1, 2, 40, 1000, 1998, 1999}, r \in {0, 100, 199} }

ProbeLaps == (-MaxLaps)..MaxLaps

\* findSegment(d) and findSegment(d + k * trackLength) on the constructed track
ProbeFindSegment ==
  /\ \E d \in ProbeDepths, k \in ProbeLaps :
       probe' = [ d |-> d, k |-> k, base |-> FindSegment(d),
                  shifted |-> FindSegment(d + k * TrackLength) ]
  /\ UNCHANGED << position, playerX, speed, score, distanceRun, isPlaying,
                  isGameOver, highScore, segments, heap, nextObj, pending, op,
                  ticks, restarts, cmdProbe, inputVars, renderVars, page >>

SpecProbe == Init /\ [][ProbeFindSegment]_vars

\* ------------------------------------------------- the game for render()
\* the commands of a rider who does not steer
StraightCommands == { cmd \in Commands : cmd.steer = 0 }

StepStraight == StepFrom(StraightCommands)

\* the game of a rider who does not steer: render() sees the same depths,
\* cars and trees as in any other game
SpecRender == Init /\ [][Start \/ StepStraight \/ Restart]_vars

\* ------------------------------------------- update under any command
\* commands from an input source that does not keep to the ranges
WideCommands == [steer : -2..2, accel : 0..2, brake : 0..2]

\* the in-range command nearest to cmd
Nearest(cmd) ==
  [ steer |-> Max(-1, Min(1, cmd.steer)),
    accel |-> Max(0, Min(1, cmd.accel)),
    brake |-> Max(0, Min(1, cmd.brake)) ]

\* a step callback whose getCommand() returns any of WideCommands; the model
\* records beside it what update() does under the nearest in-range command
StepWide ==
  /\ pending > 0
  /\ isPlaying
  /\ ticks < MaxWideTicks
  /\ \E dt \in DtValues, cmd \in WideCommands :
       /\ StepWith(dt, cmd)
       /\ \E near \in {Update(This, dt, Nearest(cmd))} :
            cmdProbe' = [ cmd |-> cmd, dt |-> dt,
                          speed |-> speed', playerX |-> playerX',
                          nearSpeed |-> near.g.speed, nearX |-> near.g.playerX ]
  /\ pending' = (pending - 1) + 1
  /\ ticks' = ticks + 1
  /\ UNCHANGED << isPlaying, nextObj, restarts, probe, inputVars, page >>

SpecCommand == Init /\ [][Start \/ StepWide]_vars

\* ------------------------------------------------ getCommand by keyboard
\* the keydown listener of line 200: this.keys[e.code] = true
KeyDown ==
  /\ Cardinality(input.keys) < MaxHeld
  /\ \E code \in KeyCodes \ input.keys :
       input' = [ input EXCEPT !.keys = input.keys \cup {code} ]
  /\ UNCHANGED << gameVars, isPlaying, nextObj, pending, op, ticks, restarts,
                  probe, cmdProbe, lastCmd, calls, renderVars, page >>

\* the keyup listener of line 207: this.keys[e.code] = false
KeyUp ==
  /\ \E code \in input.keys :
       input' = [ input EXCEPT !.keys = input.keys \ {code} ]
  /\ UNCHANGED << gameVars, isPlaying, nextObj, pending, op, ticks, restarts,
                  probe, cmdProbe, lastCmd, calls, renderVars, page >>

\* one call of getCommand()
CallGetCommand ==
  /\ calls < MaxCalls
  /\ \E r \in {GetCommand(input)} :
       /\ input' = r.input
       /\ lastCmd' = r.cmd
  /\ calls' = calls + 1
  /\ UNCHANGED << gameVars, isPlaying, nextObj, pending, op, ticks, restarts,
                  probe, cmdProbe, renderVars, page >>

\* the InputSystem with no camera (keyboard mode): key events and calls
SpecKeys == Init /\ [][KeyDown \/ KeyUp \/ CallGetCommand]_vars

\* ------------------------------------------------- the page (window.onload)
\* the game is running: started or restarted, and not over
Running == isPlaying /\ ~isGameOver

\* mutant of StartGame: the test of gameStarted is missing
StartGame_NoGuard(pg) ==
  /\ page' = [ pg EXCEPT !.gameStarted = TRUE, !.starts = pg.starts + 1 ]
  /\ isPlaying' = TRUE
  /\ pending' = pending + 1
  /\ op' = NoOp("start")

\* startGame(), lines 959-964, with game.start() of lines 571-576; pg is the
\* page as the calling handler leaves it
StartGame(pg) ==
  IF pg.gameStarted
  THEN /\ page' = pg
       /\ UNCHANGED << isPlaying, pending, op >>
  ELSE /\ page' = [ pg EXCEPT !.gameStarted = TRUE, !.starts = pg.starts + 1 ]
       /\ isPlaying' = TRUE
       /\ pending' = pending + 1
       /\ op' = NoOp("start")

\* the page after event name
After(name) == [ page EXCEPT !.last = [ name |-> name, running |-> Running ] ]

\* await game.input.startCamera() returns, lines 982-986
CameraReady ==
  /\ page.camera = "starting"
  /\ page' = [ After("cameraReady") EXCEPT !.camera = "ready",
                                            !.cameraReady = TRUE,
                                            !.disabled = FALSE ]
  /\ UNCHANGED << gameVars, isPlaying, nextObj, pending, op, ticks, restarts,
                  probe, cmdProbe, inputVars, renderVars >>

\* await game.input.startCamera() throws, lines 987-993
CameraFailed ==
  /\ page.camera = "starting"
  /\ page' = [ After("cameraFailed") EXCEPT !.camera = "failed",
                                             !.cameraReady = FALSE,
                                             !.disabled = FALSE ]
  /\ UNCHANGED << gameVars, isPlaying, nextObj, pending, op, ticks, restarts,
                  probe, cmdProbe, inputVars, renderVars >>

\* the click listener of the start button, lines 996-998; a disabled button
\* sends no click
ClickStart ==
  /\ ~page.disabled
  /\ StartGame(After("click"))
  /\ UNCHANGED << gameVars, nextObj, ticks, restarts, probe, cmdProbe,
                  inputVars, renderVars >>

\* detectWaveGesture finds a wave and calls onWaveDetected, lines 332-338 and
\* 967-973.  Hands are tracked once startCamera() was called and has not
\* failed, so a wave can come before cameraReady is set.
Wave ==
  /\ page.camera # "failed"
  /\ page.waves < MaxWaves
  /\ \E pg \in { [ After("wave") EXCEPT !.waves = page.waves + 1 ] } :
       IF ~page.gameStarted /\ page.cameraReady
       THEN /\ StartGame(pg)
            /\ UNCHANGED << gameVars, nextObj, restarts, renderVars >>
       ELSE IF isGameOver
       THEN /\ restarts < MaxRestarts
            /\ \E l \in Layouts : RestartWith(l)
            /\ pending' = pending + 1
            /\ restarts' = restarts + 1
            /\ op' = NoOp("restart")
            /\ page' = pg
            /\ UNCHANGED highScore
       ELSE /\ page' = pg
            /\ UNCHANGED << gameVars, isPlaying, nextObj, pending, op, restarts,
                            renderVars >>
  /\ UNCHANGED << ticks, probe, cmdProbe, inputVars >>

\* the commands of a rider who holds the throttle and does not steer
ThrottleCommands ==
  { cmd \in Commands : cmd.steer = 0 /\ cmd.accel = 1 /\ cmd.brake = 0 }

StepThrottle == StepFrom(ThrottleCommands)

\* the page from load on: the camera settles, the start button is clicked,
\* waves are detected, frames run, the restart button is clicked
SpecPage ==
  Init /\ [][CameraReady \/ CameraFailed \/ ClickStart \/ Wave \/ StepThrottle
             \/ Restart]_vars

\* ============================================================== properties
\* the car objects of the current track
Cars == { o \in DOMAIN heap : heap[o].kind = "car" }

\* the places (segment index, list position) at which car o is listed
PlacesOf(o) ==
  { pl \in UNION { { << i, j >> : j \in 1..Len(segments[i].cars) } : i \in DOMAIN segments } :
      segments[pl[1]].cars[pl[2]] = o }

\* the signed distance from b to a the short way round the track
ShortWay(a, b) ==
  LET m == (a - b) % TrackLength
  IN IF 2 * m > TrackLength THEN m - TrackLength ELSE m

\* the depth the player is at for collisions: position + 1000
PlayerZ == position + CAMERA_HEIGHT

\* C1: every car is listed in exactly one segment's cars, at exactly one
\* position, and that segment's index is floor(car.z / SEGMENT_LENGTH) mod
\* the number of segments; no list holds anything but a car of the track.
C1_Ownership ==
  /\ \A o \in Cars :
       /\ Cardinality(PlacesOf(o)) = 1
       /\ \A pl \in PlacesOf(o) :
            pl[1] = (heap[o].z \div SEGMENT_LENGTH) % TOTAL_SEGMENTS
  /\ \A i \in DOMAIN segments :
       \A j \in 1..Len(segments[i].cars) : segments[i].cars[j] \in Cars

\* C1 witness: after an update, a car that started at segment 40 or beyond
\* has crossed the end of the track and is listed in a segment before 40
C1_Witness ==
  /\ op.name = "update"
  /\ \E o \in Cars :
       /\ heap[o].z > 0
       /\ heap[o].z < 40 * SEGMENT_LENGTH
       /\ \E pl \in PlacesOf(o) : pl[1] < 40

\* C2 (as claimed): speed lies in [0, MAX_SPEED] at the end of every tick
C2_SpeedInRange == speed >= 0 /\ speed <= MAX_SPEED

\* C3 (as claimed): position and every car's z lie in [0, trackLength)
C3_DepthsInRange ==
  /\ position >= 0 /\ position < TrackLength
  /\ \A o \in Cars : heap[o].z >= 0 /\ heap[o].z < TrackLength

\* C4: playerX lies in [-2, 2] after every update and after restart
C4_PlayerXInRange == playerX >= -2 * XUnit /\ playerX <= 2 * XUnit

\* C4 witness: an update has steered the player to the bound
C4_Witness == op.name = "update" /\ Abs(playerX) = 2 * XUnit

\* the state of the simulation that update() may change
simState ==
  << position, playerX, speed, score, distanceRun, highScore, segments, heap >>

\* C5: isGameOver is a latch.  From a state where it is set, a step either is
\* restart() and clears it, or leaves it set and leaves position, playerX,
\* speed, score, distanceRun, highScore and every car (z, justPassed, owning
\* segment) unchanged.
C5_GameOverLatch ==
  [][ isGameOver =>
        IF op'.name = "restart"
        THEN ~isGameOver'
        ELSE isGameOver' /\ UNCHANGED simState ]_vars

\* C5 witness: update() has run in a game that was already over
C5_Witness == isGameOver /\ op.name = "update" /\ op.crashes = 0

\* a car at the player's lateral offset inside the collision depth window
Contact(h, pos, pX) ==
  \E o \in { c \in DOMAIN h : h[c].kind = "car" } :
    /\ Abs(ShortWay(h[o].z, pos + CAMERA_HEIGHT)) < 200
    /\ h[o].offset = pX

Apart(x1, w1, x2, w2) == 2 * Abs(x1 - x2) > w1 + w2

\* no car inside the collision depth window, and no tree inside the tree
\* window, has a hitbox that meets the player's
NoObstacleMet(h, segs, pos, pX) ==
  /\ \A o \in { c \in DOMAIN h : h[c].kind = "car" } :
       Abs(ShortWay(h[o].z, pos + CAMERA_HEIGHT)) < 200
         => Apart(pX, PlayerW, h[o].offset, CarW)
  /\ \A i \in DOMAIN segs : \A j \in 1..Len(segs[i].sprites) :
       Abs(ShortWay(i * SEGMENT_LENGTH, pos + CAMERA_HEIGHT)) < 100
         => Apart(pX, PlayerW, h[segs[i].sprites[j]].offset, SpriteW)

\* C7: an update of a running game in which no obstacle inside its depth
\* window has a hitbox meeting the player's hitbox ends with isGameOver false.
C7_NoCrashWithoutOverlap ==
  [][ (op'.name = "update" /\ ~isGameOver
       /\ NoObstacleMet(heap', segments', position', playerX'))
        => ~isGameOver' ]_vars

\* C7 witness: after an update the player at offset 0 is between two cars at
\* offsets -0.65 and 0.65, both inside the collision depth window, and the
\* game goes on
C7_Witness ==
  /\ op.name = "update" /\ ~isGameOver /\ playerX = 0
  /\ \E a, b \in Cars :
       /\ heap[a].offset = Lane(-1) /\ heap[b].offset = Lane(1)
       /\ Abs(ShortWay(heap[a].z, PlayerZ)) < 200
       /\ Abs(ShortWay(heap[b].z, PlayerZ)) < 200

\* car o of heap h is behind the player in the window (-300, -100) with a
\* lateral separation in (0.35, 0.8)
InBonusWindow(h, o, pos, pX) ==
  LET rel == ShortWay(h[o].z, pos + CAMERA_HEIGHT)
      lateral == Abs(pX - h[o].offset)
  IN /\ rel > -300 /\ rel < -100
     /\ 100 * lateral > 35 * XUnit /\ 10 * lateral < 8 * XUnit

\* C8: in an update of a running game the bonus goes to exactly the cars that
\* are in the bonus window with the justPassed flag clear: the score grows by
\* the passive amount (what line 716 adds for the distance covered, never a
\* multiple of 500 points or more) plus 500 for each of them, a car whose
\* flag is set gets nothing, and the flag stays set until the car is more
\* than 1000 away.
C8_BonusOncePerApproach ==
  [][ (op'.name = "update" /\ ~isGameOver) =>
        LET got == { o \in Cars : ~heap[o].justPassed
                                  /\ InBonusWindow(heap', o, position', playerX') }
        IN /\ op'.passive >= 0
           /\ op'.passive * 100 * DtDen <= MAX_SPEED * op'.dt * ScoreUnit
           /\ score' = score + op'.passive + 500 * ScoreUnit * Cardinality(got)
           /\ \A o \in Cars :
                heap'[o].justPassed =
                  IF Abs(ShortWay(heap'[o].z, position' + CAMERA_HEIGHT)) > 1000
                  THEN FALSE
                  ELSE heap[o].justPassed \/ o \in got ]_vars

\* C8 witness: an update found a car in the bonus window whose flag was set
\* by an earlier update, and awarded nothing
C8_Witness ==
  /\ op.name = "update" /\ ~isGameOver
  /\ op.held # {} /\ op.awarded = {}
  /\ \E o \in op.held : heap[o].justPassed /\ InBonusWindow(heap, o, position, playerX)
  /\ score >= 500 * ScoreUnit

\* the objects the segments' lists refer to
Listed(segs) ==
  UNION { { segs[i].cars[j] : j \in 1..Len(segs[i].cars) }
          \cup { segs[i].sprites[j] : j \in 1..Len(segs[i].sprites) } : i \in DOMAIN segs }

\* C9: restart() leaves score, distanceRun, position, playerX and speed 0 and
\* isGameOver false, and no segment of the new track lists a car or sprite
\* object of the track before.
C9_RestartResets ==
  [][ op'.name = "restart" =>
        /\ score' = 0 /\ distanceRun' = 0 /\ position' = 0
        /\ playerX' = 0 /\ speed' = 0 /\ ~isGameOver'
        /\ Listed(segments') # {}
        /\ Listed(segments') \cap (Listed(segments) \cup DOMAIN heap) = {} ]_vars

\* C9 witness: restart() has run after a game that scored
C9_Witness ==
  /\ op.name = "restart" /\ highScore > 0
  /\ score = 0 /\ ~isGameOver /\ Listed(segments) # {}

\* C10 (as claimed): findSegment(d + k * trackLength) reads the array at the
\* same index as findSegment(d), the index floor(d / SEGMENT_LENGTH) mod the
\* number of segments, for every integer k
C10_WrapInvariant ==
  /\ probe.base = (probe.d \div SEGMENT_LENGTH) % TOTAL_SEGMENTS
  /\ probe.shifted = probe.base

\* the last render() call, on the segments as update() left them
LastRender == Render(segments, renders)

\* the scale of point pt is a number other than 0
ScaleNonZero(pt) == pt.scale # Undefined /\ pt.scale # Zero

\* C11: after every step that rendered, every point that was projected at a
\* camera depth <= 0 has scale 0, and neither a road segment nor a car nor
\* a tree was drawn at a near edge p1 whose scale is 0 (or was never set).
C11_NoDrawAtScaleZero ==
  (op.name = "update" /\ renders # << >>) =>
    \E pic \in {LastRender} :
      /\ \A i \in DOMAIN pic.screen :
           /\ pic.screen[i].p1.cz[1] <= 0 => pic.screen[i].p1.scale = Zero
           /\ pic.screen[i].p2.cz[1] <= 0 => pic.screen[i].p2.scale = Zero
      /\ \A k \in 1..Len(pic.segments) :
           ScaleNonZero(pic.screen[pic.segments[k]].p1)
      /\ \A d \in pic.sprites : ScaleNonZero(pic.screen[d.seg].p1)

\* C11 witness: a render in which the base segment, which holds a car or a
\* tree, has a near edge of scale 0 that still carries the width of an
\* earlier frame, while road segments and sprites ahead are drawn
C11_Witness ==
  /\ op.name = "update" /\ renders # << >>
  /\ \E pic \in {LastRender} :
       /\ pic.segments # << >> /\ pic.sprites # {}
       /\ \E i \in DOMAIN pic.screen :
            /\ pic.screen[i].p1.scale = Zero
            /\ pic.screen[i].p1.w # Undefined /\ pic.screen[i].p1.w[1] > 5
            /\ CarsOf(segments, i) \o SpritesOf(segments, i) # << >>

\* C12 (as claimed): at most one step callback is pending in the frame
\* scheduler at every moment
C12_OnePending == pending <= 1

\* C13 (as claimed): once the game is over no step callback is pending, so
\* none runs before the next restart
C13_NoStepAfterCrash == isGameOver => pending = 0

\* C14 (as claimed): when isGameOver is set at the end of a tick, highScore is
\* at least floor(score)
C14_BestAtLeastFinal ==
  (op.name = "update" /\ isGameOver) => highScore >= score \div ScoreUnit

\* C15 (as claimed): no update decreases distanceRun
C15_DistanceMonotonic ==
  [][ op'.name = "update" => distanceRun' >= distanceRun ]_vars

\* C16: score is never negative, and no update decreases it (restart() is
\* the only operation that does: it sets it to 0).
C16_ScoreMonotonic ==
  /\ [](score >= 0)
  /\ [][ op'.name = "update" => score' >= score ]_vars

\* C16 witness: an update that ran traffic with a negative speed, in a game
\* that has scored
C16_Witness ==
  /\ op.name = "update" /\ op.crashes = 0 /\ ~isGameOver
  /\ speed < 0 /\ score > 0

\* C19 (as claimed): a car that is awarded the bonus did not come into the
\* window from behind: before the update it was not at a relative depth of
\* -300 or less
C19_BonusOnlyOnOvertake ==
  [][ op'.name = "update" =>
        \A o \in op'.awarded :
          ShortWay(heap[o].z, position + CAMERA_HEIGHT) > -300 ]_vars

\* C20 (as claimed): an update with steer = 0 and dt > 0, of a player moving
\* before and after it on a segment with nonzero curve, changes playerX
C20_CurveDrift ==
  [][ ( /\ op'.name = "update" /\ ~isGameOver /\ ~isGameOver'
        /\ op'.dt > 0 /\ op'.cmd.steer = 0
        /\ speed > 0 /\ speed' > 0
        /\ Curve(FindSegment(position + CameraDepthLength)) # 0 )
        => playerX' # playerX ]_vars

\* C17 (as claimed): update() changes speed and playerX under a command
\* outside the ranges exactly as under the nearest command inside them
C17_CommandClamped ==
  /\ cmdProbe.speed = cmdProbe.nearSpeed
  /\ cmdProbe.playerX = cmdProbe.nearX

\* C18 (as claimed): in keyboard mode getCommand() returns accel = 1 when
\* Spacebar or Up Arrow is held and brake = 1 when B or Down Arrow is held
C18_ReadmeKeys ==
  [][ (calls' = calls + 1 /\ ~input.gesture.active) =>
        /\ ("Space" \in input.keys \/ "ArrowUp" \in input.keys)
             => lastCmd'.accel = 1
        /\ ("KeyB" \in input.keys \/ "ArrowDown" \in input.keys)
             => lastCmd'.brake = 1 ]_vars

\* C21 (as claimed): an update of a running game whose command has brake
\* active ends with a speed that is not greater than the speed it began with,
\* whatever the accel of the command
C21_BrakeNeverSpeedsUp ==
  [][ (op'.name = "update" /\ ~isGameOver /\ op'.cmd.brake > 0)
        => speed' <= speed ]_vars

\* the change of speed that lines 585-587 make under command cmd in dt
NormalChange(cmd, dt) ==
  ((IF cmd.accel > 0 THEN ACCEL * cmd.accel
    ELSE IF cmd.brake > 0 THEN BRAKING ELSE DECEL) * 60 * dt) \div DtDen

\* C22: in an update of a running game the speed first changes by the accel,
\* brake or drag amount and is clamped to [0, MAX_SPEED]; then, if the
\* player is off the road (|playerX| > 1) and that speed exceeds 2000,
\* OFF_ROAD_DECEL * dt * 60 is added to it as well, and otherwise nothing is:
\* the speed at the end of a tick without crash is the sum of the two.
C22_OffRoadStacks ==
  [][ (op'.name = "update" /\ ~isGameOver) =>
        LET normal == Max(0, Min(MAX_SPEED, speed + NormalChange(op'.cmd, op'.dt)))
            off == Abs(playerX') > XUnit /\ normal > 2000
        IN /\ op'.penalty = IF off THEN (OFF_ROAD_DECEL * 60 * op'.dt) \div DtDen
                            ELSE 0
           /\ op'.crashes = 0 => speed' = normal + op'.penalty ]_vars

\* C22 witness: an update under accel, off the road, that took the off-road
\* penalty and did not crash
C22_Witness ==
  /\ op.name = "update" /\ op.crashes = 0 /\ ~isGameOver
  /\ op.cmd.accel = 1 /\ op.dt > 0
  /\ Abs(playerX) > XUnit /\ op.penalty < 0

Shortest(d, a, b) ==
  /\ (d - (a - b)) % TrackLength = 0
  /\ 2 * Abs(d) <= TrackLength

\* C24: after every update the relative depth that the collision and
\* close-call tests computed for each car (from its new z and the new
\* position), and the one the collision test computes for the trees of a
\* segment, is the signed distance the short way round the track: it differs
\* from the plain difference by a multiple of trackLength and its magnitude
\* is at most trackLength / 2.
C24_ShortestDepth ==
  op.name = "update" =>
    /\ \A o \in Cars :
         Shortest(WrapDist(heap[o].z, PlayerZ), heap[o].z, PlayerZ)
    /\ \A i \in DOMAIN segments :
         SpritesOf(segments, i) # << >> =>
           Shortest(WrapDist(i * SEGMENT_LENGTH, PlayerZ), i * SEGMENT_LENGTH, PlayerZ)

\* C24 witness: after an update the player is just before the seam of the
\* track with one car beyond the seam, more than half a track away by plain
\* difference, and another car behind the player
C24_Witness ==
  /\ op.name = "update" /\ ~isGameOver
  /\ position > TrackLength - 100 * SEGMENT_LENGTH
  /\ \E a, b \in Cars :
       /\ 2 * (heap[a].z - PlayerZ) < -TrackLength
       /\ WrapDist(heap[a].z, PlayerZ) > 0
       /\ WrapDist(heap[b].z, PlayerZ) < 0

\* C25 (as claimed): crash() runs at most once in a game.  An update of a
\* game that is over returns at once, so the calls of a game are those of
\* one update.
C25_CrashOnce == op.crashes <= 1

\* C26: an update of a running game advances the z of every car exactly
\* once: the new z is the old z plus car.speed * dt, less a whole number of
\* track lengths, and lies on the track; no car is lost or gained, and no
\* car's speed or offset changes.
C26_AdvanceOnce ==
  [][ (op'.name = "update" /\ ~isGameOver) =>
        /\ DOMAIN heap' = DOMAIN heap
        /\ \A o \in Cars :
             /\ heap'[o].kind = "car"
             /\ heap'[o].speed = heap[o].speed /\ heap'[o].offset = heap[o].offset
             /\ heap'[o].z >= 0 /\ heap'[o].z <= TrackLength
             /\ (heap'[o].z - (heap[o].z + (heap[o].speed * op'.dt) \div DtDen))
                  % TrackLength = 0 ]_vars

\* C26 witness: the first update, with dt > 0, has moved every car out of the
\* segment it was placed in (a multiple of 40) into a segment with a higher
\* index, in whose list it now is, by speed * dt exactly
C26_Witness ==
  /\ op.name = "update" /\ op.dt > 0 /\ ticks = 1 /\ ~isGameOver
  /\ Cars # {}
  /\ \A o \in Cars : \E pl \in PlacesOf(o) :
       /\ pl[1] % 40 # 0
       /\ pl[1] = heap[o].z \div SEGMENT_LENGTH
       /\ (heap[o].z - (heap[o].speed * op.dt) \div DtDen) % (40 * SEGMENT_LENGTH) = 0
       /\ (heap[o].z - (heap[o].speed * op.dt) \div DtDen) \div SEGMENT_LENGTH < pl[1]

\* C27: an update in which checkSpriteCollisions called crash() ends with
\* the player off the paved road, |playerX| > 1: no tree is hit from the road.
C27_TreesOnlyOffRoad ==
  (op.name = "update" /\ op.spriteCrashes > 0) => Abs(playerX) > XUnit

\* C27 witness: a player has left the road and run into a tree, which ended
\* the game
C27_Witness ==
  /\ op.name = "update" /\ op.spriteCrashes = 1 /\ op.crashes = 1
  /\ isGameOver /\ speed = 0
  /\ Abs(playerX) > XUnit
  /\ \E i \in DOMAIN segments : \E j \in 1..Len(segments[i].sprites) :
       /\ Abs(ShortWay(i * SEGMENT_LENGTH, PlayerZ)) < 100
       /\ ~Apart(playerX, PlayerW, heap[segments[i].sprites[j]].offset, SpriteW)

\* C28: game.start() is called at most once, however clicks, waves and the
\* settling of the camera interleave; a wave while the game is running
\* changes no game state; a wave starts the game only before the first start
\* and with cameraReady set, and restarts it only when isGameOver is set.
C28_StartOnce ==
  /\ [](page.starts <= 1)
  /\ [][ page'.waves = page.waves + 1 =>
           /\ Running =>
                UNCHANGED << gameVars, isPlaying, nextObj, pending, op, ticks,
                             restarts, renderVars >>
           /\ page'.starts > page.starts => ~page.gameStarted /\ page.cameraReady
           /\ restarts' > restarts => isGameOver ]_vars

\* C28 witness: the game was started once, the start button was clicked again
\* after that, and then a wave came while the game was running at speed
C28_Witness ==
  /\ page.starts = 1 /\ page.gameStarted /\ page.cameraReady
  /\ page.last = [ name |-> "wave", running |-> TRUE ]
  /\ page.waves = 2
  /\ Running /\ speed > 0 /\ ticks >= 1 /\ pending = 1

====
